---- MODULE Spec2Model ----
(***************************************************************************)
(* Model of the cached collection engine of prometheus-storagebox-exporter: *)
(* the TTL cache (internal/cache/cache.go), the collector                   *)
(* (internal/collector/storagebox.go) and the error classification of the   *)
(* Hetzner client (internal/hetzner).                                       *)
(*                                                                         *)
(* Time is a natural-number clock `now` that only moves forward (Go's      *)
(* time.Now() carries a monotonic reading, and Add/After/Since use it).    *)
(* The zero time.Time{} is ZeroTime, earlier than every clock reading.     *)
(***************************************************************************)
EXTENDS Integers, Sequences, FiniteSets, TLC

\* ------------------------------------------------------------------ bounds
MaxTime == 3            \* the clock runs from StartTime to MaxTime
MaxTTL == 2             \* configured cache TTLs are 0..MaxTTL
MaxInterval == 2        \* configured cleanup intervals are 0..MaxInterval
MaxInvocations == 2     \* Collect invocations started in one behaviour
MaxSections == 3        \* locked sections of the cache entered in one behaviour

\* ------------------------------------------------------- program constants
ZeroTime == 0           \* time.Time{}
StartTime == 1          \* the clock reading at construction
DefaultCleanupInterval == 10
StatusUnauthorized == 401
StatusForbidden == 403
StatusTooManyRequests == 429

\* The goroutines that may run Collect concurrently (one per scrape request).
Procs == {"s1", "s2"}

VARIABLES
    now,              \* the clock
    \* MetricsCache
    data,             \* c.data: NoData (nil interface) or Some(snapshot)
    expiration,       \* c.expiration
    lastCleanup,      \* c.lastCleanup
    ttl,              \* c.ttl
    cleanupInterval,  \* c.cleanupInterval
    \* history of the cache, for the claims
    setAt,            \* clock reading of the last Set (ZeroTime: never set)
    setVal,           \* the value of the last Set
    clearedSince,     \* a Clear ran after the last Set
    ret,              \* the last cache operation called directly, and its result
    \* StorageBoxCollector
    cacheEnabled,     \* c.cacheEnabled
    counters,         \* the eight prometheus counters
    \* one Collect invocation per goroutine
    pc,               \* where the invocation stands
    start,            \* start := time.Now()
    boxes,            \* the local boxes / fetchedBoxes / cachedData
    err,              \* the local err
    out,              \* what the invocation has sent on ch
    delta,            \* history: the increments this invocation made
    calls,            \* history: upstream calls of this invocation
    \* history of the collector
    started,          \* invocations started
    completed,        \* invocations returned
    failed,           \* invocations whose upstream fetch failed
    upstreamCalls,    \* ListStorageBoxes calls in total
    lastFetched,      \* what the last successful ListStorageBoxes returned
    emittedBefore,    \* per goroutine: the greatest total-error value emitted
                      \* by the invocations that had returned when its own began
    overlapped,       \* two invocations have been in flight at once
    \* the cache's sync.RWMutex and the goroutines inside its methods
    mu,               \* c.mu: who holds it for reading, who for writing
    thread,           \* the cache method each goroutine is inside, and its locals
    writtenBy,        \* history: the locked section that last wrote each field
    \* config.Load and what it reads
    environ,          \* os.Getenv: the environment variables ("" when unset)
    flags,            \* the command-line flags pflag.Parse has parsed
    files,            \* os.ReadFile: the content of each file that exists
    loaded            \* what Load returned, once it was called

cacheVars == <<data, expiration, lastCleanup>>
cacheCfg == <<ttl, cleanupInterval>>
cacheHist == <<setAt, setVal, clearedSince>>
raceHist == <<lastFetched, overlapped>>
collVars == <<cacheEnabled, counters, pc, start, boxes, err, out, delta, calls,
              started, completed, failed, upstreamCalls, raceHist,
              emittedBefore>>
lockVars == <<mu, thread, writtenBy>>
loadVars == <<environ, flags, files, loaded>>
vars == <<now, cacheVars, cacheCfg, cacheHist, ret, collVars, lockVars, loadVars>>

\* ------------------------------------------------------------ hetzner data
\* hetzner.StorageBox; SnapshotPlan is a pointer: "nil", "enabled" or "disabled".
BoxA == [ID |-> 1207, Name |-> "backup", Username |-> "u1207", Status |-> "active",
         Server |-> "u1207.your-storagebox.de", System |-> "FSN1-BX355",
         TypeName |-> "bx11", TypeSize |-> 1000, Location |-> "fsn1",
         Size |-> 500, SizeData |-> 400, SizeSnapshots |-> 100,
         SSH |-> TRUE, Samba |-> TRUE, WebDAV |-> FALSE, ZFS |-> FALSE,
         ReachableExternally |-> FALSE, SnapshotPlan |-> "enabled",
         ProtectionDelete |-> TRUE, Created |-> 1700]

BoxB == [ID |-> 42, Name |-> "archive", Username |-> "u42", Status |-> "inactive",
         Server |-> "u42.your-storagebox.de", System |-> "HEL1-BX12",
         TypeName |-> "bx21", TypeSize |-> 5000, Location |-> "hel1",
         Size |-> 0, SizeData |-> 0, SizeSnapshots |-> 0,
         SSH |-> FALSE, Samba |-> FALSE, WebDAV |-> FALSE, ZFS |-> FALSE,
         ReachableExternally |-> FALSE, SnapshotPlan |-> "nil",
         ProtectionDelete |-> FALSE, Created |-> 0]

\* What a successful ListStorageBoxes may return (result.StorageBoxes).
Snapshots == {<< >>, <<BoxA>>, <<BoxA, BoxB>>}

\* An interface{} value: the nil interface, or a (typed) snapshot.
NoData == [present |-> FALSE, value |-> << >>]
Some(v) == [present |-> TRUE, value |-> v]

\* The error values of ListStorageBoxes: nil, *APIError, or another error.
NoErr == [kind |-> "nil", StatusCode |-> 0, Message |-> "", RequestID |-> ""]
Statuses == {304, 400, 401, 403, 429, 499, 500, 599}
Messages == {"m1", "m2"}
RequestIDs == {"", "req-1"}
NewAPIError(statusCode, message, requestID) ==
    [kind |-> "api", StatusCode |-> statusCode, Message |-> message,
     RequestID |-> requestID]
TransportErrors ==
    {[kind |-> "other", StatusCode |-> 0, Message |-> m, RequestID |-> ""] :
        m \in {"failed to execute request", "failed to decode response"}}
APIErrors ==
    {NewAPIError(s, m, r) : s \in Statuses, m \in Messages, r \in RequestIDs}
Failures == APIErrors \cup TransportErrors

\* Records that differ from BoxA in their status string and snapshot plan.
StatusInputs ==
    {"active", "Active", "ACTIVE", "active ", "inactive", "locked",
     "initializing", ""}
SnapshotPlanInputs == {"nil", "enabled", "disabled"}
RecordInputs ==
    {[BoxA EXCEPT !.Status = st, !.SnapshotPlan = sp] :
        st \in StatusInputs, sp \in SnapshotPlanInputs}

\* What the upstream answers while scrapes run concurrently: an empty or a
\* two-box list, a server error or a transport error.
ConcurrentSnapshots == {<< >>, <<BoxA, BoxB>>}
ConcurrentFailures ==
    {NewAPIError(500, "m1", "req-1"),
     [kind |-> "other", StatusCode |-> 0, Message |-> "failed to execute request",
      RequestID |-> ""]}

\* ---------------------------------------------------------------- the clock
\* t.After(u)
After(t, u) == t > u

\* time.Since(t)
Since(t) == now - t

\* ------------------------------------------------------------ MetricsCache
\* NewMetricsCache: the fields of a fresh cache.
NewMetricsCache(t, interval) ==
    /\ data = NoData
    /\ expiration = ZeroTime
    /\ ttl = t
    /\ cleanupInterval = interval
    /\ lastCleanup = now

\* Set's new expiration: time.Now().Add(c.ttl)
SetExpiration_noTTL == now
SetExpiration == now + ttl

\* Get's test "c.data == nil || time.Now().After(c.expiration)"
GetMisses_atExpiration == (~data.present) \/ now >= expiration
GetMisses == (~data.present) \/ After(now, expiration)

\* Get: (data, true) on a hit, (nil, false) on a miss.
Get ==
    IF GetMisses
    THEN [value |-> NoData, found |-> FALSE]
    ELSE [value |-> data, found |-> TRUE]

\* Get, had it read the clock at t.
GetAt(t) ==
    IF (~data.present) \/ After(t, expiration)
    THEN [value |-> NoData, found |-> FALSE]
    ELSE [value |-> data, found |-> TRUE]

\* Set, as the change it makes to the cache (and to its history).
Set_onlyWhenEmpty(v) ==
    IF ~data.present
    THEN /\ data' = Some(v)
         /\ expiration' = SetExpiration
         /\ setAt' = now
         /\ setVal' = Some(v)
         /\ clearedSince' = FALSE
         /\ UNCHANGED lastCleanup
    ELSE UNCHANGED <<data, expiration, lastCleanup, setAt, setVal, clearedSince>>

Set_keepsUnexpired(v) ==
    IF GetMisses
    THEN /\ data' = Some(v)
         /\ expiration' = SetExpiration
         /\ setAt' = now
         /\ setVal' = Some(v)
         /\ clearedSince' = FALSE
         /\ UNCHANGED lastCleanup
    ELSE UNCHANGED <<data, expiration, lastCleanup, setAt, setVal, clearedSince>>

Set_keepsWindow(v) ==
    /\ data' = Some(v)
    /\ expiration' = IF GetMisses THEN SetExpiration ELSE expiration
    /\ setAt' = now
    /\ setVal' = Some(v)
    /\ clearedSince' = FALSE
    /\ UNCHANGED lastCleanup

Set(v) ==
    /\ data' = Some(v)
    /\ expiration' = SetExpiration
    /\ setAt' = now
    /\ setVal' = Some(v)
    /\ clearedSince' = FALSE
    /\ UNCHANGED lastCleanup

\* IsExpired
IsExpired_atExpiration == (~data.present) \/ now >= expiration
IsExpired == (~data.present) \/ After(now, expiration)

\* ShouldCleanup
ShouldCleanup == Since(lastCleanup) >= cleanupInterval

\* What a direct call on the cache returned.
Result(op, ok, value) == [op |-> op, at |-> now, found |-> ok, value |-> value]

\* ---- the cache's operations, called directly
CallGet_evictsExpired ==
    /\ ret' = Result("Get", Get.found, Get.value)
    /\ IF data.present /\ After(now, expiration)
       THEN data' = NoData /\ expiration' = ZeroTime /\ UNCHANGED lastCleanup
       ELSE UNCHANGED cacheVars
    /\ UNCHANGED <<now, cacheCfg, cacheHist, collVars, lockVars, loadVars>>

CallGet ==
    /\ ret' = Result("Get", Get.found, Get.value)
    /\ UNCHANGED <<now, cacheVars, cacheCfg, cacheHist, collVars, lockVars,
                   loadVars>>

CallSet(v) ==
    /\ Set(v)
    /\ ret' = Result("Set", TRUE, NoData)
    /\ UNCHANGED <<now, cacheCfg, collVars, lockVars, loadVars>>

CallIsExpired ==
    /\ ret' = Result("IsExpired", IsExpired, NoData)
    /\ UNCHANGED <<now, cacheVars, cacheCfg, cacheHist, collVars, lockVars,
                   loadVars>>

CallClear ==
    /\ data' = NoData
    /\ expiration' = ZeroTime
    /\ clearedSince' = TRUE
    /\ ret' = Result("Clear", TRUE, NoData)
    /\ UNCHANGED <<now, lastCleanup, setAt, setVal, cacheCfg, collVars,
                   lockVars, loadVars>>

\* Cleanup reads the clock twice: now := time.Now() for the expiry test and
\* lastCleanup, then time.Since(c.lastCleanup) for the gate, by when the clock
\* may have moved on.
CallCleanup_atExpiration ==
    /\ IF Since(lastCleanup) < cleanupInterval
       THEN /\ ret' = Result("Cleanup", FALSE, NoData)
            /\ UNCHANGED cacheVars
       ELSE /\ IF data.present /\ now >= expiration
               THEN data' = NoData /\ expiration' = ZeroTime
               ELSE UNCHANGED <<data, expiration>>
            /\ lastCleanup' = now
            /\ ret' = Result("Cleanup", TRUE, NoData)
    /\ UNCHANGED <<now, cacheCfg, cacheHist, collVars, lockVars, loadVars>>

CallCleanup_ungated ==
    /\ IF data.present /\ After(now, expiration)
       THEN data' = NoData /\ expiration' = ZeroTime
       ELSE UNCHANGED <<data, expiration>>
    /\ lastCleanup' = now
    /\ ret' = Result("Cleanup", TRUE, NoData)
    /\ UNCHANGED <<now, cacheCfg, cacheHist, collVars, lockVars, loadVars>>

CallCleanup ==
    \E since \in {t \in {now, now + 1} : t <= MaxTime} :
        /\ now' = since
        /\ IF since - lastCleanup < cleanupInterval
           THEN /\ ret' = [Result("Cleanup", FALSE, NoData) EXCEPT !.at = since]
                /\ UNCHANGED cacheVars
           ELSE /\ IF data.present /\ After(now, expiration)
                   THEN data' = NoData /\ expiration' = ZeroTime
                   ELSE UNCHANGED <<data, expiration>>
                /\ lastCleanup' = now
                /\ ret' = [Result("Cleanup", TRUE, NoData) EXCEPT !.at = since]
        /\ UNCHANGED <<cacheCfg, cacheHist, collVars, lockVars, loadVars>>

CallShouldCleanup ==
    /\ ret' = Result("ShouldCleanup", ShouldCleanup, NoData)
    /\ UNCHANGED <<now, cacheVars, cacheCfg, cacheHist, collVars, lockVars,
                   loadVars>>

\* Time passes.
Tick ==
    /\ now < MaxTime
    /\ now' = now + 1
    /\ UNCHANGED <<cacheVars, cacheCfg, cacheHist, ret, collVars, lockVars,
                   loadVars>>

\* ------------------------------------- MetricsCache, one field at a time
\* The same methods, each field access a step of its own, under c.mu. A
\* goroutine inside a method holds c.mu for reading or for writing; writtenBy
\* numbers the locked sections and remembers which one last wrote each field
\* (section 0 is the construction of the cache).
Readers == {"Get", "IsExpired"}
Writers == {"Set", "Clear", "Cleanup"}

\* A goroutine that is inside no method of the cache.
Outside ==
    [op |-> "none", at |-> "outside", id |-> 0, arg |-> NoData, t |-> ZeroTime,
     seenData |-> {}, seenExpiration |-> {}, ok |-> FALSE]

\* c.mu.RLock() returns when no goroutine holds c.mu for writing. (Go also
\* holds new readers back while a writer waits, which only removes runs.)
CanRLock == mu.writers = {}

\* c.mu.Lock() returns when no goroutine holds c.mu at all.
CanLock_ignoresReaders == mu.writers = {}
CanLock == mu.writers = {} /\ mu.readers = {}

\* The locked section goroutine p enters next.
Enter(p, op, at, arg) ==
    /\ thread[p] = Outside
    /\ writtenBy.sections < MaxSections
    /\ writtenBy' = [writtenBy EXCEPT !.sections = @ + 1]
    /\ thread' = [thread EXCEPT ![p] =
           [Outside EXCEPT !.op = op, !.at = at, !.arg = arg,
                           !.t = IF op = "Cleanup" THEN now ELSE ZeroTime,
                           !.id = writtenBy.sections + 1]]

\* Get, IsExpired: c.mu.RLock()
RLock(p, op) ==
    /\ CanRLock
    /\ Enter(p, op, "data", NoData)
    /\ mu' = [mu EXCEPT !.readers = @ \cup {p}]
    /\ UNCHANGED <<now, cacheVars, cacheCfg, cacheHist, ret, collVars,
                   loadVars>>

\* Get, IsExpired: c.data == nil
ReadData(p) ==
    /\ thread[p].op \in Readers
    /\ thread[p].at = "data"
    /\ thread' = [thread EXCEPT ![p] =
           [@ EXCEPT !.arg = data, !.seenData = {writtenBy.data},
                     !.at = IF data.present THEN "expiration" ELSE "unlock"]]
    /\ UNCHANGED <<now, cacheVars, cacheCfg, cacheHist, ret, collVars, mu,
                   writtenBy, loadVars>>

\* Get, IsExpired: time.Now().After(c.expiration)
ReadExpiration(p) ==
    /\ thread[p].op \in Readers
    /\ thread[p].at = "expiration"
    /\ thread' = [thread EXCEPT ![p] =
           [@ EXCEPT !.seenExpiration = {writtenBy.expiration},
                     !.ok = ~After(now, expiration), !.at = "unlock"]]
    /\ UNCHANGED <<now, cacheVars, cacheCfg, cacheHist, ret, collVars, mu,
                   writtenBy, loadVars>>

\* Get, IsExpired: return, and the deferred c.mu.RUnlock()
RUnlock(p) ==
    /\ thread[p].op \in Readers
    /\ thread[p].at = "unlock"
    /\ ret' = IF thread[p].op = "Get"
              THEN Result("Get", thread[p].ok,
                          IF thread[p].ok THEN thread[p].arg ELSE NoData)
              ELSE Result("IsExpired", ~thread[p].ok, NoData)
    /\ mu' = [mu EXCEPT !.readers = @ \ {p}]
    /\ thread' = [thread EXCEPT ![p] = Outside]
    /\ UNCHANGED <<now, cacheVars, cacheCfg, cacheHist, collVars, writtenBy,
                   loadVars>>

\* Set, Clear, Cleanup: c.mu.Lock(), and Cleanup's now := time.Now()
Lock(p, op, arg) ==
    /\ CanLock
    /\ Enter(p, op, IF op = "Cleanup" THEN "interval" ELSE "data", arg)
    /\ mu' = [mu EXCEPT !.writers = @ \cup {p}]
    /\ UNCHANGED <<now, cacheVars, cacheCfg, cacheHist, ret, collVars,
                   loadVars>>

\* Cleanup: the interval test, on the clock as time.Since reads it; then the
\* expiry test, on the now read before
CheckInterval(p) ==
    /\ thread[p].op = "Cleanup"
    /\ thread[p].at = "interval"
    /\ thread' = [thread EXCEPT ![p] =
           IF Since(lastCleanup) < cleanupInterval
           THEN [@ EXCEPT !.ok = FALSE, !.at = "unlock"]
           ELSE [@ EXCEPT !.ok = TRUE,
                          !.seenData = {writtenBy.data},
                          !.seenExpiration = {writtenBy.expiration},
                          !.at = IF data.present
                                    /\ After(thread[p].t, expiration)
                                 THEN "data" ELSE "lastCleanup"]]
    /\ UNCHANGED <<now, cacheVars, cacheCfg, cacheHist, ret, collVars, mu,
                   writtenBy, loadVars>>

\* Set: c.data = data.  Clear, Cleanup: c.data = nil
WriteData(p) ==
    /\ thread[p].op \in Writers
    /\ thread[p].at = "data"
    /\ data' = thread[p].arg
    /\ setVal' = IF thread[p].op = "Set" THEN thread[p].arg ELSE setVal
    /\ writtenBy' = [writtenBy EXCEPT !.data = thread[p].id]
    /\ thread' = [thread EXCEPT ![p] = [@ EXCEPT !.at = "expiration"]]
    /\ UNCHANGED <<now, expiration, lastCleanup, cacheCfg, setAt, clearedSince,
                   ret, collVars, mu, loadVars>>

\* Set: c.expiration = time.Now().Add(c.ttl).  Clear, Cleanup: time.Time{}
WriteExpiration(p) ==
    /\ thread[p].op \in Writers
    /\ thread[p].at = "expiration"
    /\ expiration' = IF thread[p].op = "Set" THEN SetExpiration ELSE ZeroTime
    /\ setAt' = IF thread[p].op = "Set" THEN now ELSE setAt
    /\ clearedSince' = IF thread[p].op = "Set" THEN FALSE
                       ELSE IF thread[p].op = "Clear" THEN TRUE
                       ELSE clearedSince
    /\ writtenBy' = [writtenBy EXCEPT !.expiration = thread[p].id]
    /\ thread' = [thread EXCEPT ![p] =
           [@ EXCEPT !.ok = TRUE,
                     !.at = IF thread[p].op = "Cleanup" THEN "lastCleanup"
                            ELSE "unlock"]]
    /\ UNCHANGED <<now, data, lastCleanup, cacheCfg, setVal, ret, collVars, mu,
                   loadVars>>

\* Cleanup: c.lastCleanup = now
WriteLastCleanup(p) ==
    /\ thread[p].op = "Cleanup"
    /\ thread[p].at = "lastCleanup"
    /\ lastCleanup' = thread[p].t
    /\ thread' = [thread EXCEPT ![p] = [@ EXCEPT !.at = "unlock"]]
    /\ UNCHANGED <<now, data, expiration, cacheCfg, cacheHist, ret, collVars,
                   mu, writtenBy, loadVars>>

\* Set, Clear, Cleanup: return, and the deferred c.mu.Unlock()
Unlock(p) ==
    /\ thread[p].op \in Writers
    /\ thread[p].at = "unlock"
    /\ ret' = Result(thread[p].op, thread[p].ok, NoData)
    /\ mu' = [mu EXCEPT !.writers = @ \ {p}]
    /\ thread' = [thread EXCEPT ![p] = Outside]
    /\ UNCHANGED <<now, cacheVars, cacheCfg, cacheHist, collVars, writtenBy,
                   loadVars>>

\* -------------------------------------------------- hetzner error helpers
IsAPIError(e) == e.kind = "api"

IsAuthError_only401(e) == IsAPIError(e) /\ e.StatusCode = StatusUnauthorized
IsAuthError(e) ==
    IsAPIError(e) /\
    (e.StatusCode = StatusUnauthorized \/ e.StatusCode = StatusForbidden)

IsClientError(e) == IsAPIError(e) /\ e.StatusCode >= 400 /\ e.StatusCode < 500

IsServerError(e) == IsAPIError(e) /\ e.StatusCode >= 500 /\ e.StatusCode < 600

\* ------------------------------------------------------ the eight counters
\* The counters, in the order Collect sends them.
EngineCounters ==
    <<"scrapeErrors", "cacheHits", "cacheMisses", "authErrors",
      "rateLimitErrors", "serverErrors", "clientErrors", "networkErrors">>

CounterNames == {EngineCounters[i] : i \in DOMAIN EngineCounters}

KindCounters ==
    {"authErrors", "rateLimitErrors", "serverErrors", "clientErrors",
     "networkErrors"}

\* The metric name of each counter (prometheus.CounterOpts.Name).
CounterDesc ==
    [scrapeErrors |-> "storagebox_exporter_scrape_errors_total",
     cacheHits |-> "storagebox_exporter_cache_hits_total",
     cacheMisses |-> "storagebox_exporter_cache_misses_total",
     authErrors |-> "storagebox_exporter_auth_errors_total",
     rateLimitErrors |-> "storagebox_exporter_rate_limit_errors_total",
     serverErrors |-> "storagebox_exporter_server_errors_total",
     clientErrors |-> "storagebox_exporter_client_errors_total",
     networkErrors |-> "storagebox_exporter_network_errors_total"]

ZeroCounters == [n \in CounterNames |-> 0]

\* Counter.Inc(), for each name of the sequence in turn.
RECURSIVE IncAll(_, _)
IncAll(c, names) ==
    IF names = << >> THEN c
    ELSE IncAll([c EXCEPT ![Head(names)] = @ + 1], Tail(names))

\* ------------------------------------------------------------- handleError
\* The counters handleError increments for err, in order.
HandleErrorIncs(e) ==
    (IF IsAPIError(e)
     THEN IF IsAuthError(e) THEN <<"authErrors">>
          ELSE IF e.StatusCode = StatusTooManyRequests THEN <<"rateLimitErrors">>
          ELSE IF IsServerError(e) THEN <<"serverErrors">>
          ELSE IF IsClientError(e) THEN <<"clientErrors">>
          ELSE << >>
     ELSE <<"networkErrors">>)
    \o <<"scrapeErrors">>

\* ------------------------------------------------------------- measurements
\* prometheus.MustNewConstMetric(desc, GaugeValue, value, labels...)
Metric(desc, value, labels) == [desc |-> desc, value |-> value, labels |-> labels]

Digit(d) == <<"0", "1", "2", "3", "4", "5", "6", "7", "8", "9">>[d + 1]

\* strconv.FormatInt(i, 10)
RECURSIVE FormatNat(_)
FormatNat(i) == IF i < 10 THEN Digit(i) ELSE FormatNat(i \div 10) \o Digit(i % 10)
formatInt64(i) == IF i < 0 THEN "-" \o FormatNat(0 - i) ELSE FormatNat(i)

boolToFloat64(b) == IF b THEN 1 ELSE 0

\* statusValue: 1 if box.Status == "active", else 0
StatusValue_notInactive(status) == IF status = "inactive" THEN 0 ELSE 1
StatusValue(status) == IF status = "active" THEN 1 ELSE 0

\* snapshotEnabled: 1 if box.SnapshotPlan != nil && box.SnapshotPlan.Enabled
SnapshotEnabled_whenPresent(plan) == IF plan # "nil" THEN 1 ELSE 0
SnapshotEnabled(plan) == IF plan # "nil" /\ plan = "enabled" THEN 1 ELSE 0

\* float64(box.Created.Unix()); Created is kept as its Unix seconds.
CreatedValue_age(box) == Since(box.Created)
CreatedValue(box) == box.Created

\* collectStorageBox: the fourteen measurements of one box, in order.
collectStorageBox(box) ==
    LET id == formatInt64(box.ID)
        name == box.Name
        server == box.Server
        location == box.Location
        statusValue == StatusValue(box.Status)
        snapshotEnabled == SnapshotEnabled(box.SnapshotPlan)
    IN  << Metric("storagebox_disk_quota_bytes", box.TypeSize,
                  <<id, name, server, location>>),
           Metric("storagebox_disk_usage_bytes", box.Size,
                  <<id, name, server, location>>),
           Metric("storagebox_disk_usage_data_bytes", box.SizeData,
                  <<id, name, server, location>>),
           Metric("storagebox_disk_usage_snapshots_bytes", box.SizeSnapshots,
                  <<id, name, server, location>>),
           Metric("storagebox_info", 1,
                  <<id, name, box.Username, server, location, box.TypeName,
                    box.System>>),
           Metric("storagebox_status", statusValue, <<id, name, box.Status>>),
           Metric("storagebox_access_ssh_enabled",
                  boolToFloat64(box.SSH), <<id, name>>),
           Metric("storagebox_access_samba_enabled",
                  boolToFloat64(box.Samba), <<id, name>>),
           Metric("storagebox_access_webdav_enabled",
                  boolToFloat64(box.WebDAV), <<id, name>>),
           Metric("storagebox_access_zfs_enabled",
                  boolToFloat64(box.ZFS), <<id, name>>),
           Metric("storagebox_reachable_externally",
                  boolToFloat64(box.ReachableExternally), <<id, name>>),
           Metric("storagebox_snapshot_plan_enabled", snapshotEnabled, <<id, name>>),
           Metric("storagebox_protection_delete",
                  boolToFloat64(box.ProtectionDelete), <<id, name>>),
           Metric("storagebox_created_timestamp", CreatedValue(box), <<id, name>>) >>

\* for _, box := range boxes { c.collectStorageBox(ch, &box) }
CollectBoxes_firstOnly(bs) ==
    IF bs = << >> THEN << >> ELSE collectStorageBox(Head(bs))

RECURSIVE CollectBoxes(_)
CollectBoxes(bs) ==
    IF bs = << >> THEN << >>
    ELSE collectStorageBox(Head(bs)) \o CollectBoxes(Tail(bs))

\* c.scrapeErrors.Collect(ch) ... c.networkErrors.Collect(ch)
CollectCounters(c) ==
    [i \in DOMAIN EngineCounters |->
        Metric(CounterDesc[EngineCounters[i]], c[EngineCounters[i]], << >>)]

\* What Collect sends when the fetch failed.
EmitOnFailure_onlyScrapeErrors(bs, c) ==
    << Metric(CounterDesc["scrapeErrors"], c["scrapeErrors"], << >>) >>
EmitOnFailure_staleBoxes(bs, c) == CollectBoxes(bs) \o CollectCounters(c)
EmitOnFailure(bs, c) == CollectCounters(c)

\* What Collect sends after a cache hit or a successful fetch.
EmitOnSuccess(bs, duration, c) ==
    CollectBoxes(bs)
    \o << Metric("storagebox_exporter_scrape_duration_seconds", duration, << >>) >>
    \o CollectCounters(c)

\* Describe: the descriptors it sends, in order.
Describe ==
    << "storagebox_disk_quota_bytes",
       "storagebox_disk_usage_bytes",
       "storagebox_disk_usage_data_bytes",
       "storagebox_disk_usage_snapshots_bytes",
       "storagebox_info",
       "storagebox_status",
       "storagebox_access_ssh_enabled",
       "storagebox_access_samba_enabled",
       "storagebox_access_webdav_enabled",
       "storagebox_snapshot_plan_enabled",
       "storagebox_protection_delete",
       "storagebox_created_timestamp",
       "storagebox_exporter_scrape_duration_seconds" >>
    \o [i \in DOMAIN EngineCounters |-> CounterDesc[EngineCounters[i]]]

\* ----------------------------------------------------- StorageBoxCollector
\* NewStorageBoxCollector: cacheEnabled := cacheTTL > 0
CacheEnabled_zeroTTL(cacheTTL) == cacheTTL >= 0
CacheEnabled(cacheTTL) == cacheTTL > 0

\* The counters Collect itself increments: on a hit, on a miss, after handleError.
HitIncs_none == << >>
HitIncs == <<"cacheHits">>

MissIncs_twice == <<"cacheMisses", "cacheMisses">>
MissIncs == <<"cacheMisses">>

FailureIncs == <<"scrapeErrors">>

\* The value an output carries for the counter named n.
Emitted(o, n) ==
    LET i == CHOOSE j \in DOMAIN o : o[j].desc = CounterDesc[n] IN o[i].value

\* The total-error values the invocations that have returned have emitted
\* (the last output of a goroutine carries the greatest of its values).
EmittedSoFar ==
    {Emitted(out[q], "scrapeErrors") : q \in {r \in Procs : pc[r] = "done"}}

\* The locals of a new invocation: start := time.Now(); var boxes []StorageBox
Fresh(p) ==
    /\ emittedBefore' = [emittedBefore EXCEPT ![p] =
           CHOOSE m \in EmittedSoFar \cup {0} :
               \A v \in EmittedSoFar \cup {0} : v <= m]
    /\ start' = [start EXCEPT ![p] = now]
    /\ boxes' = [boxes EXCEPT ![p] = << >>]
    /\ err' = [err EXCEPT ![p] = NoErr]
    /\ out' = [out EXCEPT ![p] = << >>]
    /\ delta' = [delta EXCEPT ![p] = ZeroCounters]
    /\ calls' = [calls EXCEPT ![p] = 0]

\* The invocation of goroutine p has entered Collect and not yet returned.
InFlight(p) == pc[p] \notin {"idle", "done"}

\* Collect is entered: start := time.Now(); if c.cacheEnabled ...
CollectStart_resetsCounters(p) ==
    /\ pc[p] \in {"idle", "done"}
    /\ started < MaxInvocations
    /\ started' = started + 1
    /\ Fresh(p)
    /\ counters' = ZeroCounters
    /\ overlapped' = (overlapped \/ \E q \in Procs \ {p} : InFlight(q))
    /\ pc' = [pc EXCEPT ![p] = IF cacheEnabled THEN "get" ELSE "fetch"]
    /\ UNCHANGED <<now, cacheVars, cacheCfg, cacheHist, ret, cacheEnabled,
                   completed, failed, upstreamCalls, lastFetched, lockVars,
                   loadVars>>

CollectStart(p) ==
    /\ pc[p] \in {"idle", "done"}
    /\ started < MaxInvocations
    /\ started' = started + 1
    /\ Fresh(p)
    /\ overlapped' = (overlapped \/ \E q \in Procs \ {p} : InFlight(q))
    /\ pc' = [pc EXCEPT ![p] = IF cacheEnabled THEN "get" ELSE "fetch"]
    /\ UNCHANGED <<now, cacheVars, cacheCfg, cacheHist, ret, cacheEnabled,
                   counters, completed, failed, upstreamCalls, lastFetched,
                   lockVars, loadVars>>

\* cachedData, found := c.cache.Get()
CheckCache_evictsExpired(p) ==
    /\ pc[p] = "get"
    /\ IF Get.found
       THEN /\ boxes' = [boxes EXCEPT ![p] = Get.value.value]
            /\ pc' = [pc EXCEPT ![p] = "hit"]
            /\ UNCHANGED cacheVars
       ELSE /\ pc' = [pc EXCEPT ![p] = "miss"]
            /\ data' = NoData
            /\ expiration' = ZeroTime
            /\ UNCHANGED <<boxes, lastCleanup>>
    /\ UNCHANGED <<now, cacheCfg, cacheHist, ret, cacheEnabled, counters, start,
                   emittedBefore, err, out, delta, calls, started, completed,
                   failed, upstreamCalls, raceHist, lockVars, loadVars>>

CheckCache(p) ==
    /\ pc[p] = "get"
    /\ IF Get.found
       THEN /\ boxes' = [boxes EXCEPT ![p] = Get.value.value]
            /\ pc' = [pc EXCEPT ![p] = "hit"]
       ELSE /\ pc' = [pc EXCEPT ![p] = "miss"]
            /\ UNCHANGED boxes
    /\ UNCHANGED <<now, cacheVars, cacheCfg, cacheHist, ret, cacheEnabled,
                   counters, start, emittedBefore, err, out, delta, calls,
                   started, completed, failed, upstreamCalls, raceHist,
                   lockVars, loadVars>>

\* c.cacheHits.Inc(); boxes = cachedData.([]hetzner.StorageBox)
RecordHit(p) ==
    /\ pc[p] = "hit"
    /\ counters' = IncAll(counters, HitIncs)
    /\ delta' = [delta EXCEPT ![p] = IncAll(@, HitIncs)]
    /\ pc' = [pc EXCEPT ![p] = "project"]
    /\ UNCHANGED <<now, cacheVars, cacheCfg, cacheHist, ret, cacheEnabled,
                   start, emittedBefore, boxes, err, out, calls, started,
                   completed, failed, upstreamCalls, raceHist, lockVars,
                   loadVars>>

\* Where Collect goes after a miss: to ListStorageBoxes, whatever happened in
\* the invocations before.
AfterMiss_backsOff == IF counters.scrapeErrors > 0 THEN "project" ELSE "fetch"
AfterMiss == "fetch"

\* c.cacheMisses.Inc()
RecordMiss(p) ==
    /\ pc[p] = "miss"
    /\ counters' = IncAll(counters, MissIncs)
    /\ delta' = [delta EXCEPT ![p] = IncAll(@, MissIncs)]
    /\ pc' = [pc EXCEPT ![p] = AfterMiss]
    /\ UNCHANGED <<now, cacheVars, cacheCfg, cacheHist, ret, cacheEnabled,
                   start, emittedBefore, boxes, err, out, calls, started,
                   completed, failed, upstreamCalls, raceHist, lockVars,
                   loadVars>>

\* Where Collect goes when ListStorageBoxes returned boxes: c.cache.Set(boxes)
\* in the branch of an enabled cache, straight to the loop over boxes otherwise.
AfterFetch_alwaysStores == "set"
AfterFetch == IF cacheEnabled THEN "set" ELSE "project"

\* fetchedBoxes, err := c.client.ListStorageBoxes(ctx), err == nil
FetchOK(p, s) ==
    /\ pc[p] = "fetch"
    /\ boxes' = [boxes EXCEPT ![p] = s]
    /\ calls' = [calls EXCEPT ![p] = @ + 1]
    /\ upstreamCalls' = upstreamCalls + 1
    /\ lastFetched' = Some(s)
    /\ pc' = [pc EXCEPT ![p] = AfterFetch]
    /\ UNCHANGED <<now, cacheVars, cacheCfg, cacheHist, ret, cacheEnabled,
                   counters, start, emittedBefore, err, out, delta, started,
                   completed, failed, overlapped, lockVars, loadVars>>

\* Where Collect goes when ListStorageBoxes returned an error: c.handleError
AfterFailure_retry == "fetch"
AfterFailure_stores == "set"
AfterFailure == "handle"

\* fetchedBoxes, err := c.client.ListStorageBoxes(ctx), err != nil
FetchFail(p, e) ==
    /\ pc[p] = "fetch"
    /\ err' = [err EXCEPT ![p] = e]
    /\ calls' = [calls EXCEPT ![p] = @ + 1]
    /\ upstreamCalls' = upstreamCalls + 1
    /\ failed' = failed + 1
    /\ pc' = [pc EXCEPT ![p] = AfterFailure]
    /\ UNCHANGED <<now, cacheVars, cacheCfg, cacheHist, ret, cacheEnabled,
                   counters, start, emittedBefore, boxes, out, delta, started,
                   completed, raceHist, lockVars, loadVars>>

\* c.handleError(err, source)
HandleError_abortsOnTransport(p) ==
    /\ pc[p] = "handle"
    /\ IsAPIError(err[p])
    /\ counters' = IncAll(counters, HandleErrorIncs(err[p]))
    /\ delta' = [delta EXCEPT ![p] = IncAll(@, HandleErrorIncs(err[p]))]
    /\ pc' = [pc EXCEPT ![p] = "report"]
    /\ UNCHANGED <<now, cacheVars, cacheCfg, cacheHist, ret, cacheEnabled,
                   start, emittedBefore, boxes, err, out, calls, started,
                   completed, failed, upstreamCalls, raceHist, lockVars,
                   loadVars>>

HandleError(p) ==
    /\ pc[p] = "handle"
    /\ counters' = IncAll(counters, HandleErrorIncs(err[p]))
    /\ delta' = [delta EXCEPT ![p] = IncAll(@, HandleErrorIncs(err[p]))]
    /\ pc' = [pc EXCEPT ![p] = "report"]
    /\ UNCHANGED <<now, cacheVars, cacheCfg, cacheHist, ret, cacheEnabled,
                   start, emittedBefore, boxes, err, out, calls, started,
                   completed, failed, upstreamCalls, raceHist, lockVars,
                   loadVars>>

\* c.scrapeErrors.Inc(); the eight Collect(ch) calls; return
ReportFailure_clearsCache(p) ==
    /\ pc[p] = "report"
    /\ counters' = IncAll(counters, FailureIncs)
    /\ delta' = [delta EXCEPT ![p] = IncAll(@, FailureIncs)]
    /\ out' = [out EXCEPT ![p] = EmitOnFailure(data.value, counters')]
    /\ completed' = completed + 1
    /\ pc' = [pc EXCEPT ![p] = "done"]
    /\ data' = NoData
    /\ expiration' = ZeroTime
    /\ UNCHANGED <<now, lastCleanup, cacheCfg, cacheHist, ret, cacheEnabled,
                   start, emittedBefore, boxes, err, calls, started, failed,
                   upstreamCalls, raceHist, lockVars, loadVars>>

ReportFailure_emitsFirst(p) ==
    /\ pc[p] = "report"
    /\ counters' = IncAll(counters, FailureIncs)
    /\ delta' = [delta EXCEPT ![p] = IncAll(@, FailureIncs)]
    /\ out' = [out EXCEPT ![p] = EmitOnFailure(data.value, counters)]
    /\ completed' = completed + 1
    /\ pc' = [pc EXCEPT ![p] = "done"]
    /\ UNCHANGED <<now, cacheVars, cacheCfg, cacheHist, ret, cacheEnabled,
                   start, emittedBefore, boxes, err, calls, started, failed,
                   upstreamCalls, raceHist, lockVars, loadVars>>

ReportFailure(p) ==
    /\ pc[p] = "report"
    /\ counters' = IncAll(counters, FailureIncs)
    /\ delta' = [delta EXCEPT ![p] = IncAll(@, FailureIncs)]
    /\ out' = [out EXCEPT ![p] = EmitOnFailure(data.value, counters')]
    /\ completed' = completed + 1
    /\ pc' = [pc EXCEPT ![p] = "done"]
    /\ UNCHANGED <<now, cacheVars, cacheCfg, cacheHist, ret, cacheEnabled,
                   start, emittedBefore, boxes, err, calls, started, failed,
                   upstreamCalls, raceHist, lockVars, loadVars>>

\* boxes = fetchedBoxes; c.cache.Set(boxes)
StoreInCache(p) ==
    /\ pc[p] = "set"
    /\ Set(boxes[p])
    /\ pc' = [pc EXCEPT ![p] = "project"]
    /\ UNCHANGED <<now, cacheCfg, ret, cacheEnabled, counters, start,
                   emittedBefore, boxes, err, out, delta, calls, started,
                   completed, failed, upstreamCalls, raceHist, lockVars,
                   loadVars>>

\* The loop over boxes, the scrape duration, the eight Collect(ch) calls; return
Project(p) ==
    /\ pc[p] = "project"
    /\ out' = [out EXCEPT ![p] = EmitOnSuccess(boxes[p], Since(start[p]), counters)]
    /\ completed' = completed + 1
    /\ pc' = [pc EXCEPT ![p] = "done"]
    /\ UNCHANGED <<now, cacheVars, cacheCfg, cacheHist, ret, cacheEnabled,
                   counters, start, emittedBefore, boxes, err, delta, calls,
                   started, failed, upstreamCalls, raceHist, lockVars,
                   loadVars>>

\* The next step of the invocation of goroutine p, whatever the upstream answers.
CollectStep(p) ==
    \/ CheckCache(p)
    \/ RecordHit(p)
    \/ RecordMiss(p)
    \/ \E s \in Snapshots : FetchOK(p, s)
    \/ \E e \in Failures : FetchFail(p, e)
    \/ HandleError(p)
    \/ ReportFailure(p)
    \/ StoreInCache(p)
    \/ Project(p)

\* ------------------------------------------------------------- config.Load
\* A Go string is a sequence of one-character strings here, "" being << >>.
\* Durations are kept in seconds, the unit of the clock. Of Config, the fields
\* the engine is built from (token, cache TTL, cleanup interval) are modelled.
NotGiven == [given |-> FALSE, value |-> << >>]
NotGivenInt == [given |-> FALSE, value |-> 0]
Given(v) == [given |-> TRUE, value |-> v]

\* The value pflag leaves in a flag's variable: the flag's, or the default.
FlagValue(flag, default) == IF flag.given THEN flag.value ELSE default

\* os.Getenv(key)
Getenv(key) == environ[key]

\* The token file the environment or the flags can name.
TokenPath == <<"/", "f">>

\* strings.TrimSpace
IsSpace(c) == c \in {" ", "\n", "\t"}

RECURSIVE TrimLeft(_)
TrimLeft(s) == IF s # << >> /\ IsSpace(Head(s)) THEN TrimLeft(Tail(s)) ELSE s

RECURSIVE TrimRight(_)
TrimRight(s) ==
    IF s # << >> /\ IsSpace(s[Len(s)]) THEN TrimRight(SubSeq(s, 1, Len(s) - 1))
    ELSE s

TrimSpace(s) == TrimRight(TrimLeft(s))

\* readTokenFromFile: the trimmed content, or an error for a file that is
\* missing or holds only white space.
readTokenFromFile(filename) ==
    IF filename \notin DOMAIN files THEN [ok |-> FALSE, token |-> << >>]
    ELSE IF TrimSpace(files[filename]) = << >> THEN [ok |-> FALSE, token |-> << >>]
    ELSE [ok |-> TRUE, token |-> TrimSpace(files[filename])]

\* strconv.Atoi: an optional sign, then decimal digits and nothing else.
IsDigit(c) == \E d \in 0..9 : Digit(d) = c
DigitValue(c) == CHOOSE d \in 0..9 : Digit(d) = c

RECURSIVE ParseDigits(_, _)
ParseDigits(s, acc) ==
    IF s = << >> THEN acc
    ELSE ParseDigits(Tail(s), 10 * acc + DigitValue(Head(s)))

Atoi(s) ==
    LET signed == s # << >> /\ Head(s) \in {"+", "-"}
        body == IF signed THEN Tail(s) ELSE s
    IN  IF body = << >> \/ \E i \in DOMAIN body : ~IsDigit(body[i])
        THEN [ok |-> FALSE, value |-> 0]
        ELSE [ok |-> TRUE,
              value |-> IF signed /\ Head(s) = "-" THEN 0 - ParseDigits(body, 0)
                        ELSE ParseDigits(body, 0)]

\* cfg.HetznerToken and cfg.HetznerTokenFile after pflag.Parse()
ParsedToken == FlagValue(flags.hetznerToken, Getenv("HETZNER_TOKEN"))
ParsedTokenFile == FlagValue(flags.hetznerTokenFile, Getenv("HETZNER_TOKEN_FILE"))

\* Load's four "cannot specify both" tests.
TokenConflict_sameSourceOnly ==
    \/ Getenv("HETZNER_TOKEN") # << >> /\ Getenv("HETZNER_TOKEN_FILE") # << >>
    \/ (flags.hetznerToken.given /\ flags.hetznerToken.value # << >>
        /\ flags.hetznerTokenFile.given /\ flags.hetznerTokenFile.value # << >>)
TokenConflict ==
    \/ Getenv("HETZNER_TOKEN") # << >> /\ Getenv("HETZNER_TOKEN_FILE") # << >>
    \/ ParsedToken # << >> /\ ParsedTokenFile # << >>
    \/ ParsedToken # << >> /\ Getenv("HETZNER_TOKEN_FILE") # << >>
    \/ ParsedTokenFile # << >> /\ Getenv("HETZNER_TOKEN") # << >>

\* Load's cache TTL, in seconds: the flag if > 0, else CACHE_TTL if it parses
\* to a number >= 0, else 0.
CacheTTLSeconds ==
    IF flags.cacheTTL.value > 0 THEN flags.cacheTTL.value
    ELSE IF Getenv("CACHE_TTL") # << >>
            /\ Atoi(Getenv("CACHE_TTL")).ok /\ Atoi(Getenv("CACHE_TTL")).value >= 0
         THEN Atoi(Getenv("CACHE_TTL")).value
    ELSE 0

\* Load's cleanup interval, in seconds: the flag if > 0, else
\* CACHE_CLEANUP_INTERVAL if it parses to a number > 0, else the default.
CleanupSeconds ==
    IF flags.cacheCleanupInterval.value > 0 THEN flags.cacheCleanupInterval.value
    ELSE IF Getenv("CACHE_CLEANUP_INTERVAL") # << >>
            /\ Atoi(Getenv("CACHE_CLEANUP_INTERVAL")).ok
            /\ Atoi(Getenv("CACHE_CLEANUP_INTERVAL")).value > 0
         THEN Atoi(Getenv("CACHE_CLEANUP_INTERVAL")).value
    ELSE DefaultCleanupInterval

\* The nil *Config, and what Load returns with an error.
NoConfig ==
    [HetznerToken |-> << >>, HetznerTokenFile |-> << >>, CacheTTL |-> 0,
     CacheCleanupInterval |-> 0, ShowVersion |-> FALSE]
Failed(why, read) ==
    [called |-> TRUE, ok |-> FALSE, err |-> why, present |-> FALSE,
     cfg |-> NoConfig, read |-> read]

\* Load: (cfg, nil) or (nil, err), and the files it has read on the way.
Load ==
    LET fromFile == readTokenFromFile(ParsedTokenFile)
        token == IF ParsedTokenFile # << >> THEN fromFile.token ELSE ParsedToken
    IN  IF TokenConflict THEN Failed("both", {})
        ELSE IF ParsedTokenFile # << >> /\ ~fromFile.ok
             THEN Failed("file", {ParsedTokenFile})
        ELSE IF /\ ~flags.version
                /\ token = << >>
                /\ ParsedTokenFile = << >>
                /\ Getenv("HETZNER_TOKEN") = << >>
                /\ Getenv("HETZNER_TOKEN_FILE") = << >>
             THEN Failed("required", {})
        ELSE [called |-> TRUE, ok |-> TRUE, err |-> "nil", present |-> TRUE,
              cfg |-> [HetznerToken |-> token,
                       HetznerTokenFile |-> ParsedTokenFile,
                       CacheTTL |-> CacheTTLSeconds,
                       CacheCleanupInterval |-> CleanupSeconds,
                       ShowVersion |-> flags.version],
              read |-> IF ParsedTokenFile # << >> THEN {ParsedTokenFile} ELSE {}]

\* Load has not been called.
NotLoaded ==
    [called |-> FALSE, ok |-> FALSE, err |-> "nil", present |-> FALSE,
     cfg |-> NoConfig, read |-> {}]

\* main calls config.Load()
CallLoad ==
    /\ ~loaded.called
    /\ loaded' = Load
    /\ UNCHANGED <<now, cacheVars, cacheCfg, cacheHist, ret, collVars, lockVars,
                   environ, flags, files>>

\* --------------------------------------------------------- specifications
\* A process started with nothing set and no flag given (as the tests that
\* construct the cache or the collector themselves).
NoEnviron ==
    [HETZNER_TOKEN |-> << >>, HETZNER_TOKEN_FILE |-> << >>, CACHE_TTL |-> << >>,
     CACHE_CLEANUP_INTERVAL |-> << >>]
NoFlags ==
    [hetznerToken |-> NotGiven, hetznerTokenFile |-> NotGiven,
     cacheTTL |-> NotGivenInt, cacheCleanupInterval |-> NotGivenInt,
     version |-> FALSE]

\* The state after NewStorageBoxCollector(client, t, _, interval).
EngineInit(ttls, intervals) ==
    /\ now = StartTime
    /\ \E t \in ttls, interval \in intervals :
          /\ NewMetricsCache(t, interval)
          /\ cacheEnabled = CacheEnabled(t)
    /\ setAt = ZeroTime
    /\ setVal = NoData
    /\ clearedSince = FALSE
    /\ ret = [op |-> "none", at |-> ZeroTime, found |-> FALSE, value |-> NoData]
    /\ counters = ZeroCounters
    /\ pc = [p \in Procs |-> "idle"]
    /\ start = [p \in Procs |-> ZeroTime]
    /\ emittedBefore = [p \in Procs |-> 0]
    /\ boxes = [p \in Procs |-> << >>]
    /\ err = [p \in Procs |-> NoErr]
    /\ out = [p \in Procs |-> << >>]
    /\ delta = [p \in Procs |-> ZeroCounters]
    /\ calls = [p \in Procs |-> 0]
    /\ started = 0
    /\ completed = 0
    /\ failed = 0
    /\ upstreamCalls = 0
    /\ lastFetched = NoData
    /\ overlapped = FALSE
    /\ mu = [readers |-> {}, writers |-> {}]
    /\ thread = [p \in Procs |-> Outside]
    /\ writtenBy = [data |-> 0, expiration |-> 0, sections |-> 0]

InitWith(intervals) ==
    /\ EngineInit(0..MaxTTL, intervals)
    /\ environ = NoEnviron
    /\ flags = NoFlags
    /\ files = << >>
    /\ loaded = NotLoaded

\* Scrapes call Collect concurrently while time passes.
Next ==
    \/ Tick
    \/ \E p \in Procs : CollectStart(p)
    \/ \E p \in Procs : CheckCache(p)
    \/ \E p \in Procs : RecordHit(p)
    \/ \E p \in Procs : RecordMiss(p)
    \/ \E p \in Procs, s \in ConcurrentSnapshots : FetchOK(p, s)
    \/ \E p \in Procs, e \in ConcurrentFailures : FetchFail(p, e)
    \/ \E p \in Procs : HandleError(p)
    \/ \E p \in Procs : ReportFailure(p)
    \/ \E p \in Procs : StoreInCache(p)
    \/ \E p \in Procs : Project(p)

\* The collector never reads cleanupInterval: 10 s is main's default.
Init == InitWith({DefaultCleanupInterval})

Spec == Init /\ [][Next]_vars

\* One scrape at a time, meeting every failure the client can return.
SeqNext ==
    \/ Tick
    \/ CollectStart("s1")
    \/ CheckCache("s1")
    \/ RecordHit("s1")
    \/ RecordMiss("s1")
    \/ \E s \in Snapshots : FetchOK("s1", s)
    \/ \E e \in Failures : FetchFail("s1", e)
    \/ HandleError("s1")
    \/ ReportFailure("s1")
    \/ StoreInCache("s1")
    \/ Project("s1")

SeqSpec == Init /\ [][SeqNext]_vars

\* The cache alone, its operations called in any order while time passes.
CacheNext ==
    \/ Tick
    \/ CallGet
    \/ \E v \in Snapshots : CallSet(v)
    \/ CallIsExpired
    \/ CallClear
    \/ CallCleanup
    \/ CallShouldCleanup

CacheInit == InitWith(0..MaxInterval)

CacheSpec == CacheInit /\ [][CacheNext]_vars

\* One scrape at a time, the upstream answering with any one record.
ProjectionNext ==
    \/ CollectStart("s1")
    \/ CheckCache("s1")
    \/ RecordHit("s1")
    \/ RecordMiss("s1")
    \/ \E b \in RecordInputs : FetchOK("s1", <<b>>)
    \/ StoreInCache("s1")
    \/ Project("s1")

ProjectionSpec == Init /\ [][ProjectionNext]_vars

\* Goroutines inside the cache's methods, one field access at a time.
LockNext ==
    \/ Tick
    \/ \E p \in Procs, op \in Readers : RLock(p, op)
    \/ \E p \in Procs, v \in ConcurrentSnapshots : Lock(p, "Set", Some(v))
    \/ \E p \in Procs, op \in {"Clear", "Cleanup"} : Lock(p, op, NoData)
    \/ \E p \in Procs : ReadData(p)
    \/ \E p \in Procs : ReadExpiration(p)
    \/ \E p \in Procs : RUnlock(p)
    \/ \E p \in Procs : CheckInterval(p)
    \/ \E p \in Procs : WriteData(p)
    \/ \E p \in Procs : WriteExpiration(p)
    \/ \E p \in Procs : WriteLastCleanup(p)
    \/ \E p \in Procs : Unlock(p)

LockSpec == CacheInit /\ [][LockNext]_vars

\* What the process can be started with: each token variable unset or set,
\* each token flag absent, empty or set, a token file that is missing, empty,
\* blank or holds a token with or without white space around it, and numbers
\* given as text and as flags.
TokenFileContents == {<< >>, <<" ">>, <<"t">>, <<" ", "t", "\n">>}
NumberTexts ==
    {<< >>, <<"0">>, <<"1">>, <<"0", "2">>, <<"+", "2">>, <<"-", "1">>,
     <<"1", "s">>, <<" ", "1">>}
Environs ==
    [HETZNER_TOKEN : {<< >>, <<"t">>},
     HETZNER_TOKEN_FILE : {<< >>, TokenPath},
     CACHE_TTL : NumberTexts,
     CACHE_CLEANUP_INTERVAL : {<< >>, <<"0">>, <<"2">>}]
FlagSets ==
    [hetznerToken : {NotGiven, Given(<< >>), Given(<<"u">>)},
     hetznerTokenFile : {NotGiven, Given(<< >>), Given(TokenPath)},
     cacheTTL : {NotGivenInt} \cup {Given(n) : n \in (0 - 1)..MaxTTL},
     cacheCleanupInterval : {NotGivenInt} \cup {Given(n) : n \in 0..MaxInterval},
     version : BOOLEAN]
FileSystems == {<< >>} \cup {[f \in {TokenPath} |-> c] : c \in TokenFileContents}

\* main starts by calling config.Load(); the engine is not built yet.
ConfigInit ==
    /\ EngineInit({0}, {0})
    /\ environ \in Environs
    /\ flags \in FlagSets
    /\ files \in FileSystems
    /\ loaded = NotLoaded

ConfigNext == CallLoad

ConfigSpec == ConfigInit /\ [][ConfigNext]_vars

\* ------------------------------------------------------------------ claims
\* The last direct call on the cache was a Get, after some Set, with ttl > 0.
GetAfterSet == ret.op = "Get" /\ ttl > 0 /\ setAt # ZeroTime

\* C1: for a cache built with ttl > 0, after Set(v) at time T with no later Set
\* or Clear, every Get at a time T' with T <= T' < T+ttl returns (v, true).
C1_HitWithinTTL ==
    (GetAfterSet /\ ~clearedSince /\ setAt <= ret.at /\ ret.at < setAt + ttl)
        => (ret.found /\ ret.value = setVal)

\* A Get strictly inside the window, one tick after the Set, returned the value.
C1_Witness ==
    /\ GetAfterSet /\ ~clearedSince
    /\ setAt < ret.at /\ ret.at < setAt + ttl
    /\ ret.found /\ ret.value = setVal

PastCacheCheck == {p \in Procs : pc[p] \in {"project", "fetch", "set", "handle", "report"}}

\* The invocations that have called upstream and not yet returned.
PastFetch == {p \in Procs : pc[p] \in {"project", "set", "handle", "report"} /\ calls[p] > 0}

Quiescent == \A p \in Procs : pc[p] \in {"idle", "done"}

\* C3: with caching enabled every Collect increments exactly one of cacheHits and
\* cacheMisses, by one; after N completed invocations hits + misses = N.
C3_OneOfHitMiss ==
    cacheEnabled =>
        /\ \A p \in Procs : pc[p] = "done" =>
              /\ delta[p].cacheHits + delta[p].cacheMisses = 1
              /\ delta[p].cacheHits \in {0, 1}
              /\ delta[p].cacheMisses \in {0, 1}
        /\ counters.cacheHits + counters.cacheMisses
              = completed + Cardinality(PastCacheCheck)
        /\ Quiescent => counters.cacheHits + counters.cacheMisses = completed

\* Two invocations have completed with caching enabled, one of them failed.
C3_Witness ==
    /\ cacheEnabled /\ Quiescent
    /\ completed >= 2 /\ failed >= 1
    /\ counters.cacheHits + counters.cacheMisses = 2

C5_DisabledMissesCount ==
    ttl = 0 =>
        /\ counters.cacheHits = 0
        /\ \A p \in Procs : pc[p] = "done" => delta[p].cacheMisses = 1

\* How often an invocation's output holds a measurement of the descriptor.
Times(o, desc) == Cardinality({i \in DOMAIN o : o[i].desc = desc})

EngineDescs == {CounterDesc[n] : n \in CounterNames}

\* C6: every Collect invocation, successful or failed, emits each of the eight
\* engine counters exactly once before it returns.
C6_CountersEmittedOnce ==
    \A p \in Procs : pc[p] = "done" =>
        \A n \in CounterNames : Times(out[p], CounterDesc[n]) = 1

\* One invocation returned after a failure and another after a success.
C6_Witness ==
    \E p, q \in Procs :
        /\ pc[p] = "done" /\ err[p] # NoErr
        /\ pc[q] = "done" /\ err[q] = NoErr

KindSum(d) ==
    d.authErrors + d.rateLimitErrors + d.serverErrors + d.clientErrors
    + d.networkErrors

\* Exactly the counter k among the per-kind counters was incremented, once.
OnlyKind(d, k) == \A n \in KindCounters : d[n] = IF n = k THEN 1 ELSE 0

Handled(p) == pc[p] \in {"report", "done"} /\ err[p] # NoErr

\* C8 as stated: for every failure the client can return, the failed invocation
\* increments exactly one of the five per-kind counters by one.
C8_ExactlyOneKind ==
    \A p \in Procs : Handled(p) => KindSum(delta[p]) = 1

\* C9 as stated: each failed invocation increases scrapeErrors by exactly one, so
\* scrapeErrors equals the number of invocations whose fetch failed.
C9_TotalEqualsFailed ==
    /\ \A p \in Procs : (pc[p] = "done" /\ err[p] # NoErr) => delta[p].scrapeErrors = 1
    /\ Quiescent => counters.scrapeErrors = failed

\* C10: classification depends on the status code only: 401/403 auth, 429 rate
\* limit, 500-599 server, any other 400-499 client, no typed API error network;
\* message and request id do not matter.
C10_ClassifiedByStatus ==
    /\ \A p \in Procs : Handled(p) =>
          LET e == err[p]
              d == delta[p]
              api == e.kind = "api"
              sc == e.StatusCode
          IN  /\ (api /\ sc \in {401, 403}) => OnlyKind(d, "authErrors")
              /\ (api /\ sc = 429) => OnlyKind(d, "rateLimitErrors")
              /\ (api /\ sc >= 500 /\ sc <= 599) => OnlyKind(d, "serverErrors")
              /\ (api /\ sc >= 400 /\ sc <= 499 /\ sc \notin {401, 403, 429})
                    => OnlyKind(d, "clientErrors")
              /\ ~api => OnlyKind(d, "networkErrors")
              /\ \A e2 \in Failures :
                    (e2.kind = e.kind /\ e2.StatusCode = sc)
                        => HandleErrorIncs(e2) = HandleErrorIncs(e)

\* A 403 carrying a request id was handled and counted as an auth error.
C10_Witness ==
    \E p \in Procs :
        /\ Handled(p) /\ err[p].kind = "api" /\ err[p].StatusCode = 403
        /\ err[p].RequestID # "" /\ delta[p].authErrors = 1

\* A sequential invocation checks the cache inside the window of the last Set.
CheckInsideWindow(p) ==
    /\ cacheEnabled
    /\ pc[p] = "get"
    /\ pc'[p] # "get"
    /\ setAt # ZeroTime
    /\ setAt <= now
    /\ now < setAt + ttl

\* C11: with caching enabled, once a snapshot was stored at time T, a later
\* sequential invocation that checks the cache at T' with T <= T' < T+ttl takes
\* the stored snapshot, makes no upstream call and increments cacheHits by one;
\* two consecutive invocations of which the second is such a hit have caused one
\* upstream call and one cacheHits increment in total.
C11_HitInsideWindow ==
    /\ [][\A p \in Procs :
            /\ CheckInsideWindow(p)
                  => (pc'[p] = "hit" /\ boxes'[p] = setVal.value)
            /\ (pc[p] = "hit" /\ pc'[p] # "hit")
                  => /\ pc'[p] = "project"
                     /\ counters'.cacheHits = counters.cacheHits + 1
                     /\ delta'[p].cacheHits = 1
                     /\ upstreamCalls' = upstreamCalls]_vars
    /\ [](\A p \in Procs :
            /\ (pc[p] \in {"project", "done"} /\ delta[p].cacheHits = 1)
                  => (calls[p] = 0 /\ err[p] = NoErr /\ delta[p].cacheMisses = 0)
            /\ (pc[p] = "done" /\ delta[p].cacheHits = 1 /\ completed = 2)
                  => (upstreamCalls = 1 /\ counters.cacheHits = 1))

\* The second of two invocations has returned: it checked the cache one tick
\* after the first stored its snapshot, hit, and projected the stored snapshot.
C11_Witness ==
    /\ cacheEnabled
    /\ completed = 2
    /\ pc["s1"] = "done"
    /\ start["s1"] = setAt + 1
    /\ now < setAt + ttl
    /\ delta["s1"].cacheHits = 1
    /\ calls["s1"] = 0
    /\ upstreamCalls = 1
    /\ counters.cacheHits = 1
    /\ setVal.value # << >>
    /\ out["s1"] = EmitOnSuccess(setVal.value, Since(start["s1"]), counters)

\* C12: one Collect invocation calls ListStorageBoxes at most once; after a
\* failed fetch it classifies the error, reports and returns having made that
\* one call and no other.
C12_AtMostOneUpstreamCall ==
    /\ upstreamCalls <= started
    /\ \A p \in Procs :
          /\ calls[p] <= 1
          /\ pc[p] \in {"handle", "report"} => (calls[p] = 1 /\ err[p] # NoErr)
          /\ (pc[p] = "done" /\ err[p] # NoErr)
                => /\ calls[p] = 1
                   /\ delta[p] = IncAll(IncAll(IF cacheEnabled
                                              THEN IncAll(ZeroCounters, MissIncs)
                                              ELSE ZeroCounters,
                                              HandleErrorIncs(err[p])),
                                       FailureIncs)

\* An invocation has returned after a failed fetch while the other goroutine's
\* invocation also failed: two upstream calls, one each.
C12_Witness ==
    /\ \A p \in Procs : pc[p] = "done" /\ err[p] # NoErr /\ calls[p] = 1
    /\ upstreamCalls = 2

\* Goroutine p takes a step of an invocation whose fetch fails or has failed.
FailureStep(p) ==
    \/ pc[p] = "fetch" /\ pc'[p] = AfterFailure /\ err'[p] # NoErr
    \/ pc[p] = "handle" /\ pc'[p] = "report"
    \/ pc[p] = "report" /\ pc'[p] = "done"

\* C13: every step of an invocation whose upstream fetch fails or times out
\* leaves the stored value, the expiration and lastCleanup as they were.
C13_FailureLeavesCache ==
    [][\A p \in Procs : FailureStep(p) => UNCHANGED <<data, expiration, lastCleanup>>]_vars

\* A failed invocation has returned while the cache holds the unexpired snapshot
\* an earlier invocation stored.
C13_Witness ==
    /\ \E p \in Procs : pc[p] = "done" /\ err[p] # NoErr
    /\ data.present
    /\ data = setVal
    /\ data.value # << >>
    /\ expiration = setAt + ttl
    /\ ~After(now, expiration)

\* The descriptors Describe sends.
Described == {Describe[i] : i \in DOMAIN Describe}

\* C14 as stated: the descriptor of every measurement a Collect invocation has
\* sent is one of the descriptors Describe sends.
C14_DescribeCoversCollect ==
    \A p \in Procs : \A i \in DOMAIN out[p] : out[p][i].desc \in Described

\* C15: with caching enabled, concurrent invocations that both missed each
\* call upstream and each call Set; every such Set overwrites the slot with its
\* own snapshot and an expiration computed from its own clock reading, so the
\* slot holds the value and expiration of the Set that ran last.
C15_LastSetWins ==
    /\ [][\A p \in Procs :
            (pc[p] = "set" /\ pc'[p] # "set")
                => (data' = Some(boxes[p]) /\ expiration' = now + ttl)]_vars
    /\ []((cacheEnabled /\ setAt # ZeroTime)
              => (data = setVal /\ expiration = setAt + ttl))

\* Both goroutines started on the empty cache, both recorded a miss, both
\* fetched (different snapshots) and both called Set; the slot holds the
\* snapshot of s1, whose Set ran last, one tick after it was fetched.
C15_Witness ==
    /\ started = 2
    /\ overlapped
    /\ \A p \in Procs :
          /\ pc[p] \in {"project", "done"}
          /\ delta[p].cacheMisses = 1
          /\ calls[p] = 1
          /\ err[p] = NoErr
    /\ counters.cacheMisses = 2
    /\ upstreamCalls = 2
    /\ boxes["s1"] # boxes["s2"]
    /\ data = Some(boxes["s1"])
    /\ lastFetched = Some(boxes["s2"])
    /\ expiration = setAt + ttl
    /\ setAt = now

\* No invocation is between the completion of its fetch and its Set.
NoPendingSet == \A p \in Procs : pc[p] # "set"

\* C16 as stated: with caching enabled, whenever no invocation is between its
\* fetch and its Set, a non-empty slot holds the snapshot of the successful
\* fetch that completed most recently.
C16_SlotHoldsLatestFetch ==
    (cacheEnabled /\ NoPendingSet /\ data.present) => data = lastFetched

\* C16, amended: the same, as long as no two invocations have overlapped; in
\* every case the slot holds the snapshot given to the Set that ran last.
C16_SlotHoldsLatestFetchUnlessOverlapped ==
    (cacheEnabled /\ NoPendingSet /\ data.present)
        => /\ data = setVal
           /\ ~overlapped => data = lastFetched

\* Two invocations ran one after the other; the second found the first's
\* snapshot expired, fetched a different one and stored it.
C16_Witness ==
    /\ cacheEnabled
    /\ ~overlapped
    /\ NoPendingSet
    /\ completed = 2
    /\ upstreamCalls = 2
    /\ failed = 0
    /\ data.present
    /\ data.value # << >>
    /\ data = lastFetched

\* The longest number of steps an invocation can still take before it returns.
StepsLeft ==
    [idle |-> 0, done |-> 0, project |-> 1, set |-> 2, hit |-> 2, report |-> 1,
     handle |-> 2, fetch |-> 3, miss |-> 4, get |-> 5]

\* Goroutine p's invocation does something in this step.
Moves(p) ==
    \/ pc'[p] # pc[p]
    \/ <<boxes[p], err[p], out[p], delta[p], calls[p]>>'
           # <<boxes[p], err[p], out[p], delta[p], calls[p]>>

\* C18: every Collect invocation returns normally once the upstream call has
\* returned or timed out: while it is in flight it always has a next step,
\* every step it takes brings it closer to its return, and an upstream failure
\* of any kind ends in the counters having been incremented and sent, with the
\* cache enabled or disabled.
C18_CollectAlwaysReturns ==
    /\ [](\A p \in Procs : InFlight(p) => ENABLED CollectStep(p))
    /\ [][\A p \in Procs :
            (InFlight(p) /\ Moves(p)) => StepsLeft[pc'[p]] < StepsLeft[pc[p]]]_vars
    /\ [](\A p \in Procs :
            (pc[p] = "done" /\ err[p] # NoErr)
                => /\ delta[p].scrapeErrors >= 1
                   /\ Len(out[p]) = Len(EngineCounters))

\* With the cache disabled, one invocation has returned after a transport
\* error (a timeout) and the other after an API error.
C18_Witness ==
    /\ ~cacheEnabled
    /\ pc["s1"] = "done"
    /\ pc["s2"] = "done"
    /\ err["s1"].kind = "other"
    /\ err["s2"].kind = "api"
    /\ out["s2"] = CollectCounters(counters)
    /\ completed = 2

\* C17: under any interleaving of Get, IsExpired, Set, Clear and Cleanup, the
\* value and the expiration a Get or IsExpired has evaluated were written by the
\* same locked section, and while a goroutine holds c.mu for writing no other
\* goroutine is inside a locked section.
C17_NoTornRead ==
    /\ \A p \in Procs :
          (thread[p].op \in Readers /\ thread[p].seenExpiration # {})
              => thread[p].seenData = thread[p].seenExpiration
    /\ Cardinality(mu.writers) <= 1
    /\ mu.writers # {} => mu.readers = {}

\* Two readers are inside at once, after a Set: each has evaluated both fields
\* and seen that Set in both.
C17_Witness ==
    /\ mu.readers = Procs
    /\ setAt # ZeroTime
    /\ \A p \in Procs :
          /\ thread[p].at = "unlock"
          /\ thread[p].seenData = {1}
          /\ thread[p].seenExpiration = {1}

\* C19: no engine counter ever decreases or is reset, across any sequence or
\* interleaving of Collect invocations.
C19_CountersMonotonic ==
    [][\A n \in CounterNames : counters'[n] >= counters[n]]_vars

\* A second invocation is under way after a failed one and has added its own
\* miss to the counters the first left behind.
C19_Witness ==
    /\ cacheEnabled
    /\ completed = 1
    /\ failed = 1
    /\ counters.scrapeErrors = 2
    /\ counters.cacheMisses = 2
    /\ \E p \in Procs : pc[p] = "fetch" /\ delta[p].cacheMisses = 1

\* The sequence o starts with the sequence b.
StartsWith(o, b) == Len(o) >= Len(b) /\ \A i \in DOMAIN b : o[i] = b[i]

\* C20 as stated: when a failed invocation returns while the cache still holds
\* a snapshot of an earlier successful fetch, what it has sent starts with the
\* per-resource measurements of that snapshot.
C20_FailureEmitsStaleBoxes ==
    [][\A p \in Procs :
          (pc[p] = "report" /\ pc'[p] = "done" /\ data.present)
              => StartsWith(out'[p], CollectBoxes(data.value))]_vars

\* C21 as stated: every Collect invocation that has returned has sent one
\* storagebox_exporter_up gauge, with value 1 after a successful fetch or a
\* cache hit and 0 after an upstream failure.
C21_UpGaugeEmitted ==
    \A p \in Procs :
        pc[p] = "done"
            => \E i \in DOMAIN out[p] :
                  /\ out[p][i].desc = "storagebox_exporter_up"
                  /\ out[p][i].value = (IF err[p] = NoErr THEN 1 ELSE 0)

\* The measurement kinds of one resource record, and how many of each.
RecordKinds ==
    { [n |-> 4, descs |-> {"storagebox_disk_quota_bytes", "storagebox_disk_usage_bytes",
                           "storagebox_disk_usage_data_bytes",
                           "storagebox_disk_usage_snapshots_bytes"}],
      [n |-> 1, descs |-> {"storagebox_info"}],
      [n |-> 1, descs |-> {"storagebox_status"}],
      [n |-> 5, descs |-> {"storagebox_access_ssh_enabled",
                           "storagebox_access_samba_enabled",
                           "storagebox_access_webdav_enabled",
                           "storagebox_access_zfs_enabled",
                           "storagebox_reachable_externally"}],
      [n |-> 1, descs |-> {"storagebox_snapshot_plan_enabled"}],
      [n |-> 1, descs |-> {"storagebox_protection_delete"}],
      [n |-> 1, descs |-> {"storagebox_created_timestamp"}] }

\* The positions in an output of the measurements of the k-th record.
Rows(k) == (14 * (k - 1) + 1)..(14 * k)

\* C22: a successful Collect over n records has sent 14n + 9 measurements: for
\* each record, in the order of the snapshot, 4 usage/quota gauges, 1 info
\* metric, 1 status gauge, 5 capability gauges, 1 snapshot-plan gauge, 1
\* protection gauge and 1 created-timestamp gauge, all labelled with the
\* record's id; then one scrape-duration gauge; then the 8 engine counters.
C22_MeasurementCount ==
    \A p \in Procs :
        (pc[p] = "done" /\ err[p] = NoErr)
            => LET o == out[p]
                   n == Len(boxes[p])
               IN  /\ Len(o) = 14 * n + 9
                   /\ \A k \in 1..n :
                         /\ \A kind \in RecordKinds :
                               Cardinality({i \in Rows(k) : o[i].desc \in kind.descs})
                                   = kind.n
                         /\ Cardinality({o[i].desc : i \in Rows(k)}) = 14
                         /\ \A i \in Rows(k) :
                               o[i].labels[1] = formatInt64(boxes[p][k].ID)
                   /\ o[14 * n + 1].desc = "storagebox_exporter_scrape_duration_seconds"
                   /\ \A i \in 1..8 :
                         o[14 * n + 1 + i].desc = CounterDesc[EngineCounters[i]]

\* A successful invocation over two records has returned 37 measurements; an
\* earlier state of the witness run is covered by n = 0 in the formula.
C22_Witness ==
    /\ pc["s1"] = "done"
    /\ err["s1"] = NoErr
    /\ Len(boxes["s1"]) = 2
    /\ Len(out["s1"]) = 37
    /\ out["s1"][15].labels[1] = "42"

\* The measurements of the k-th record in output o whose descriptor is desc.
Of(o, k, desc) == {o[i] : i \in {j \in Rows(k) \cap DOMAIN o : o[j].desc = desc}}

\* C23: for every record, the status gauge is 1 if and only if the status
\* string is exactly "active" and 0 otherwise, and its third label is the raw
\* status string.
C23_StatusGauge ==
    \A p \in Procs :
        (pc[p] = "done" /\ err[p] = NoErr)
            => \A k \in DOMAIN boxes[p] :
                  /\ Cardinality(Of(out[p], k, "storagebox_status")) = 1
                  /\ \A m \in Of(out[p], k, "storagebox_status") :
                        /\ m.value \in {0, 1}
                        /\ m.value = 1 <=> boxes[p][k].Status = "active"
                        /\ m.labels = <<formatInt64(boxes[p][k].ID), boxes[p][k].Name,
                                        boxes[p][k].Status>>

\* A record whose status differs from "active" only in case has been projected
\* to 0, with the string as its label.
C23_Witness ==
    /\ pc["s1"] = "done"
    /\ Len(boxes["s1"]) = 1
    /\ boxes["s1"][1].Status = "Active"
    /\ \E m \in Of(out["s1"], 1, "storagebox_status") :
          m.value = 0 /\ m.labels[3] = "Active"

\* C24: for every record, the snapshot-plan gauge is 1 if and only if a
\* snapshot plan is present and enabled; a record without a plan projects to 0
\* and the invocation returns the record's fourteen measurements all the same.
C24_SnapshotPlanGauge ==
    \A p \in Procs :
        (pc[p] = "done" /\ err[p] = NoErr)
            => /\ Len(out[p]) = 14 * Len(boxes[p]) + 9
               /\ \A k \in DOMAIN boxes[p] :
                     /\ Cardinality(Of(out[p], k, "storagebox_snapshot_plan_enabled")) = 1
                     /\ \A m \in Of(out[p], k, "storagebox_snapshot_plan_enabled") :
                           /\ m.value \in {0, 1}
                           /\ m.value = 1 <=> boxes[p][k].SnapshotPlan = "enabled"

\* A record without a snapshot plan has been projected: gauge 0, and the
\* invocation has returned its 14 + 9 measurements.
C24_Witness ==
    /\ pc["s1"] = "done"
    /\ Len(boxes["s1"]) = 1
    /\ boxes["s1"][1].SnapshotPlan = "nil"
    /\ Len(out["s1"]) = 23
    /\ \E m \in Of(out["s1"], 1, "storagebox_snapshot_plan_enabled") : m.value = 0

\* The per-resource measurements of an output: all but the duration gauge and
\* the eight counters that end it.
PerResource(o) == SubSeq(o, 1, Len(o) - 9)

\* The descriptors of an output, in order.
Descs(o) == [i \in DOMAIN o |-> o[i].desc]

TokenSpecified ==
    \/ Getenv("HETZNER_TOKEN") # << >>
    \/ flags.hetznerToken.given /\ flags.hetznerToken.value # << >>
FileSpecified ==
    \/ Getenv("HETZNER_TOKEN_FILE") # << >>
    \/ flags.hetznerTokenFile.given /\ flags.hetznerTokenFile.value # << >>

\* C26: when a token and a token file are both specified, in the environment,
\* by flags or one in each, Load fails: it returns an error and no
\* configuration, and it has not read the token file.
C26_BothSpecifiedFails ==
    (loaded.called /\ TokenSpecified /\ FileSpecified)
        => (~loaded.ok /\ ~loaded.present /\ loaded.read = {})

\* Load has refused a token in the environment with a token file given by
\* flag, the file being there to read.
C26_Witness ==
    /\ loaded.called
    /\ Getenv("HETZNER_TOKEN") # << >>
    /\ Getenv("HETZNER_TOKEN_FILE") = << >>
    /\ flags.hetznerToken = Given(<< >>)
    /\ flags.hetznerTokenFile = Given(TokenPath)
    /\ TokenPath \in DOMAIN files
    /\ loaded.err = "both"
    /\ loaded.read = {}

\* C27: a token is required: whenever Load succeeds without --version, the
\* HetznerToken of the configuration it returns is not empty, whatever the
\* environment and the flags were, flags set to the empty string included.
C27_TokenRequired ==
    (loaded.called /\ loaded.ok /\ ~flags.version)
        => loaded.cfg.HetznerToken # << >>

\* CACHE_TTL when it parses as a non-negative integer, otherwise 0.
EnvTTLOrDefault ==
    IF Atoi(Getenv("CACHE_TTL")).ok /\ Atoi(Getenv("CACHE_TTL")).value >= 0
    THEN Atoi(Getenv("CACHE_TTL")).value
    ELSE 0

\* C28: the cache TTL follows flag > environment variable > default: when
\* --cache-ttl is given (with a value that is not negative) its value is the
\* TTL, otherwise CACHE_TTL when it parses as a non-negative integer, otherwise
\* 0; and the TTL is never negative.
C28_TTLPrecedence ==
    (loaded.called /\ loaded.ok) =>
        /\ loaded.cfg.CacheTTL >= 0
        /\ (flags.cacheTTL.given /\ flags.cacheTTL.value >= 0)
               => loaded.cfg.CacheTTL = flags.cacheTTL.value
        /\ ~flags.cacheTTL.given => loaded.cfg.CacheTTL = EnvTTLOrDefault

\* A step that is a call of Get or of IsExpired: the last call is then one of
\* the two, and the step is not the mere passing of time after one.
ReadStep == ret'.op \in {"Get", "IsExpired"} /\ (ret' # ret \/ now' = now)

\* C29: Get and IsExpired have no side effect: whatever the state, a miss on
\* an expired value included, they leave the stored value, the expiration and
\* lastCleanup as they were.
C29_ReadsChangeNothing ==
    [][ReadStep => UNCHANGED <<data, expiration, lastCleanup>>]_vars

\* Get has just missed on a value that has expired, and the value is still
\* stored.
C29_Witness ==
    /\ ret.op = "Get"
    /\ ret.at = now
    /\ ~ret.found
    /\ data.present
    /\ After(now, expiration)

\* C30: in every state of the cache, at every instant, IsExpired returns true
\* exactly when a Get at that instant reports a miss.
C30_IsExpiredIffGetMisses == IsExpired <=> ~Get.found

\* IsExpired has just returned false at the very instant of the expiration,
\* where Get still hits.
C30_Witness ==
    /\ ret.op = "IsExpired"
    /\ ret.at = now
    /\ ~ret.found
    /\ data.present
    /\ now = expiration

\* A step that is a call of Cleanup: the last call is then a Cleanup, and the
\* step is not the mere passing of time after one.
CleanupStep == ret'.op = "Cleanup" /\ (ret' # ret \/ now' = now)

\* C31: Cleanup is gated. If less than cleanupInterval has elapsed since
\* lastCleanup it returns false and changes nothing. Otherwise it returns true
\* and sets lastCleanup to now, whether or not it discards a value; it
\* discards the value and zeroes the expiration if the value has expired, and
\* keeps a value that has not. ShouldCleanup is true exactly when a Cleanup at
\* the same instant returns true. (The time elapsed is the one Cleanup
\* measures, on its second reading of the clock.)
C31_CleanupGated ==
    [][CleanupStep =>
          /\ IF now' - lastCleanup < cleanupInterval
             THEN ~ret'.found /\ UNCHANGED <<data, expiration, lastCleanup>>
             ELSE /\ ret'.found
                  /\ lastCleanup' = now
                  /\ IF data.present /\ After(now, expiration)
                     THEN data' = NoData /\ expiration' = ZeroTime
                     ELSE UNCHANGED <<data, expiration>>
          /\ now' = now => ret'.found = ShouldCleanup]_vars

\* Cleanup has just returned true and has discarded a value that was set and
\* that no Clear removed.
C31_Witness ==
    /\ ret.op = "Cleanup"
    /\ ret.found
    /\ setVal.present
    /\ ~clearedSince
    /\ ~data.present
    /\ expiration = ZeroTime
    /\ lastCleanup > StartTime

\* C32: Cleanup never affects what Get answers: a Get right after a Cleanup
\* returns what it would have returned at that instant had the Cleanup not
\* run, and whatever Cleanup discards Get already reported as a miss.
C32_CleanupKeepsGet ==
    [][CleanupStep =>
          /\ Get' = GetAt(now')
          /\ data' # data => ~Get.found]_vars

\* Cleanup has just discarded a value whose window of ttl > 0 had passed; Get
\* misses after it as it did before.
C32_Witness ==
    /\ ret.op = "Cleanup"
    /\ ret.found
    /\ ttl > 0
    /\ setVal.present
    /\ ~clearedSince
    /\ now > setAt + ttl
    /\ ~data.present
    /\ ~Get.found

\* C33: Set(v) at time T always succeeds and replaces the slot whatever it
\* held: afterwards a value is stored, it is the value given, and the
\* expiration is T + ttl, also when the entry before was still valid; ttl,
\* cleanupInterval and lastCleanup are unchanged.
C33_SetReplaces ==
    [][\A v \in Snapshots :
          CallSet(v) =>
              /\ ret'.found
              /\ data' = Some(v)
              /\ expiration' = now + ttl
              /\ UNCHANGED <<ttl, cleanupInterval, lastCleanup>>]_vars

\* A Set, later than the construction of a cache with ttl > 0, has just stored
\* a value and opened its window.
C33_Witness ==
    /\ ret.op = "Set"
    /\ ret.at = now
    /\ now > StartTime
    /\ ttl > 0
    /\ data.present
    /\ data = setVal
    /\ expiration = now + ttl

\* C34: with caching disabled (TTL = 0) the collector neither reads nor writes
\* the cache: no invocation is ever at Get or at Set, nothing was ever stored,
\* and the slot is empty in every reachable state, whatever the number of
\* invocations that succeeded or failed.
C34_DisabledSlotEmpty ==
    (ttl = 0) =>
        /\ \A p \in Procs : pc[p] \notin {"get", "hit", "miss", "set"}
        /\ ~data.present
        /\ expiration = ZeroTime
        /\ ~setVal.present

\* With TTL = 0 one invocation has failed and another has fetched boxes and
\* emitted them; the slot is empty.
C34_Witness ==
    /\ ttl = 0
    /\ completed = 2
    /\ failed = 1
    /\ upstreamCalls = 2
    /\ lastFetched.present
    /\ lastFetched.value # << >>
    /\ \A p \in Procs : ~InFlight(p)
    /\ ~data.present

\* C35: a failure is not cached and there is no backoff. With caching enabled,
\* the invocation that follows a failed one goes straight to the cache, which
\* the failure left as it was; an invocation that finds no valid snapshot
\* there records a miss and then calls upstream, once; and if that fetch
\* succeeds it stores the boxes fetched and emits the full measurement set of
\* every one of them.
C35_NextInvocationRetries ==
    /\ [][\A p \in Procs :
            /\ (cacheEnabled /\ pc[p] = "done" /\ err[p] # NoErr
                /\ pc'[p] # "done")
                  => (pc'[p] = "get" /\ UNCHANGED <<data, expiration>>)
            /\ (pc[p] = "get" /\ ~Get.found /\ pc'[p] # "get")
                  => pc'[p] = "miss"
            /\ (pc[p] = "miss" /\ pc'[p] # "miss")
                  => /\ pc'[p] = "fetch"
                     /\ counters'.cacheMisses = counters.cacheMisses + 1
            /\ (pc[p] = "fetch" /\ pc'[p] # "fetch")
                  => /\ upstreamCalls' = upstreamCalls + 1
                     /\ calls'[p] = 1
                     /\ (cacheEnabled /\ err'[p] = NoErr) => pc'[p] = "set"
            /\ (pc[p] = "set" /\ pc'[p] # "set")
                  => /\ pc'[p] = "project"
                     /\ data' = Some(boxes[p])
                     /\ expiration' = now + ttl]_vars
    /\ [](\A p \in Procs :
            (cacheEnabled /\ pc[p] = "done" /\ err[p] = NoErr
             /\ delta[p].cacheMisses > 0)
                => /\ delta[p].cacheMisses = 1
                   /\ calls[p] = 1
                   /\ data = Some(boxes[p])
                   /\ PerResource(out[p]) = CollectBoxes(boxes[p])
                   /\ Len(out[p]) = 14 * Len(boxes[p]) + 9)

\* The first invocation failed; the second, begun at the same instant, missed,
\* fetched two boxes, stored them and emitted them.
C35_Witness ==
    /\ cacheEnabled
    /\ now = StartTime
    /\ completed = 2
    /\ failed = 1
    /\ counters.scrapeErrors > 0
    /\ counters.cacheMisses = 2
    /\ upstreamCalls = 2
    /\ pc["s1"] = "done"
    /\ err["s1"] = NoErr
    /\ Len(boxes["s1"]) = 2
    /\ data = Some(boxes["s1"])
    /\ Len(out["s1"]) = 14 * 2 + 9

\* C36: within an invocation every increment precedes the emission of the
\* counters. The values an invocation emits are those of the counters when it
\* returns, its own increments of hits, misses, error kinds and total errors
\* included, and it increments nothing after emitting. A failed invocation
\* therefore emits a total-error value of at least 1, greater than the value
\* emitted by any invocation that had returned before it began.
C36_IncrementsPrecedeEmission ==
    /\ [][\A p \in Procs :
            /\ (pc[p] # "done" /\ pc'[p] = "done")
                  => \A n \in CounterNames :
                         /\ Emitted(out'[p], n) = counters'[n]
                         /\ counters'[n] >= delta'[p][n]
            /\ (pc[p] = "done" /\ pc'[p] = "done")
                  => (delta'[p] = delta[p] /\ out'[p] = out[p])]_vars
    /\ [](\A p \in Procs :
            (pc[p] = "done" /\ err[p] # NoErr)
                => /\ delta[p].scrapeErrors >= 1
                   /\ Emitted(out[p], "scrapeErrors") >= 1
                   /\ Emitted(out[p], "scrapeErrors") > emittedBefore[p])

\* A failed invocation has returned that began after another failed invocation
\* had returned; it emitted a greater total-error value than that one.
C36_Witness ==
    \E p \in Procs :
        /\ pc[p] = "done"
        /\ err[p] # NoErr
        /\ completed = 2
        /\ emittedBefore[p] >= 1
        /\ delta[p].cacheMisses = 1
        /\ Emitted(out[p], "cacheMisses") = 2
        /\ Emitted(out[p], "scrapeErrors") > emittedBefore[p]

\* C37: the collector never calls Cleanup or Clear. With caching enabled, once
\* a successful fetch has stored a snapshot the slot is never empty again: it
\* changes only when a successful fetch stores its boxes over it, and
\* lastCleanup never moves, so an expired snapshot stays in the slot until
\* then.
C37_SlotStaysFilled ==
    /\ [][/\ data.present => data'.present
          /\ (data' # data \/ expiration' # expiration)
                => \E p \in Procs :
                       /\ pc[p] = "set" /\ pc'[p] = "project"
                       /\ data' = Some(boxes[p])
          /\ lastCleanup' = lastCleanup]_vars
    /\ []((cacheEnabled /\ setVal.present) => data.present)

\* A snapshot stored by the first invocation has expired, a second invocation
\* has failed since, and the snapshot is still in the slot.
C37_Witness ==
    /\ cacheEnabled
    /\ data.present
    /\ data.value # << >>
    /\ After(now, expiration)
    /\ completed = 2
    /\ failed = 1
    /\ counters.cacheMisses = 2
    /\ \A p \in Procs : ~InFlight(p)

\* C38: in every reachable state the slot is empty or holds a whole sequence of
\* resource records, possibly of length zero, that a successful upstream fetch
\* returned: the only step that writes the slot stores the boxes of an
\* invocation whose fetch returned them without error. A hit therefore always
\* converts back to a sequence of records.
C38_SlotHoldsFetchedBoxes ==
    /\ [](/\ data.present => data.value \in ConcurrentSnapshots
          /\ \A p \in Procs :
                /\ pc[p] = "set"
                      => /\ err[p] = NoErr
                         /\ calls[p] = 1
                         /\ boxes[p] \in ConcurrentSnapshots
                /\ pc[p] = "hit" => boxes[p] \in ConcurrentSnapshots)
    /\ [][/\ \A p \in Procs :
                /\ (pc[p] = "fetch" /\ pc'[p] = "set")
                      => boxes'[p] = lastFetched'.value
                /\ (pc[p] = "get" /\ pc'[p] = "hit") => boxes'[p] = data.value
          /\ data' # data
                => \E p \in Procs : pc[p] = "set" /\ data' = Some(boxes[p])]_vars

\* A fetch returned no record at all; the empty sequence was stored, and the
\* next invocation hit on it and emitted the nine measurements of no record.
C38_Witness ==
    \E p \in Procs :
        /\ pc[p] = "done"
        /\ delta[p].cacheHits = 1
        /\ data = Some(<< >>)
        /\ boxes[p] = << >>
        /\ upstreamCalls = 1
        /\ Len(out[p]) = 9

====
